---- MODULE Spec2Model ----
(***************************************************************************)
(* tournament.py: a Swiss-system tournament kept in a PostgreSQL database. *)
(* The store is the two tables players(id, name) and                       *)
(* matches(match_id, winner_id, loser_id, tournament_id).  Every function  *)
(* of the module opens a connection, runs its statements and closes the    *)
(* connection; the functions are modelled as atomic actions and the SQL    *)
(* statements as operators over the tables.                                *)
(***************************************************************************)
EXTENDS Integers, Sequences, FiniteSets, Bags

\* ---------------------------------------------------------------- bounds
\* number of registerPlayer calls (players.id is a serial that is never reused)
\* and number of rows the matches table holds
MaxPlayers == 3
MaxMatches == 2
\* the same two bounds of the specification of the pairings: more players,
\* so that swissPairings returns more than one pair, and fewer matches
PairPlayers == 4
PairMatches == 1

\* the names and the tournament ids the calls are made with: two names of the
\* test client, the default tournament_id and the test client's tournament
Names == {"Dee", "Temur"}
Tournaments == {0, 16}

VARIABLES
    players,   \* players table: sequence of [id, name] rows, in the order of the ids
    matches,   \* matches table: bag of [winner_id, loser_id, tournament_id] rows
               \* (match_id is a serial key that is only ever counted)
    next_id,   \* next value of the serial players.id
    views,     \* names of the views that exist in the database (committed)
    on_delete, \* the schema: what matches.winner_id and matches.loser_id declare
    ret        \* the last call: [op, tournament_id, raised, output_]

vars == <<players, matches, next_id, views, on_delete, ret>>

\* ---------------------------------------------------------------- helpers
RECURSIVE SumCopies(_, _)
\* number of rows of bag b whose value is in the set S
SumCopies(S, b) ==
    IF S = {} THEN 0
    ELSE LET m == CHOOSE x \in S : TRUE
         IN  CopiesIn(m, b) + SumCopies(S \ {m}, b)

RECURSIVE SumOf(_, _)
\* sum of f[x] over the set S
SumOf(S, f) ==
    IF S = {} THEN 0
    ELSE LET x == CHOOSE y \in S : TRUE
         IN  f[x] + SumOf(S \ {x}, f)

RECURSIVE Perms(_)
\* the sequences that list every element of the set S once
Perms(S) ==
    IF S = {} THEN {<<>>}
    ELSE UNION {{<<x>> \o p : p \in Perms(S \ {x})} : x \in S}

\* The SQL statements read the two tables; they are operators of the tables
\* P (players) and M (matches).
ids_of(P) == {P[i].id : i \in 1 .. Len(P)}

\* the rows of M with matches.tournament_id = %s
of_tournament(M, tournament_id) ==
    {m \in BagToSet(M) : m.tournament_id = tournament_id}

\* variant of count_matches without the WHERE clause: every match is counted
count_matches_all(M, tournament_id) == BagCardinality(M)

\* SELECT COUNT(match_id) FROM matches WHERE matches.tournament_id = %s
count_matches(M, tournament_id) ==
    SumCopies(of_tournament(M, tournament_id), M)

\* ---------------------------------------------------------------- views
\* variant of temp_matches that counts the distinct (winner, loser) results
\* of a player instead of the joined rows
temp_matches_distinct(P, M, tournament_id) ==
    LET joined(id) == {m \in of_tournament(M, tournament_id) :
                          id = m.winner_id \/ id = m.loser_id}
    IN  [id \in {p \in ids_of(P) : joined(p) # {}} |-> Cardinality(joined(id))]

\* temp_matches: players x matches WHERE (id = winner_id OR id = loser_id)
\* AND tournament_id = %s GROUP BY players.id; a function from the ids that
\* have a group to COUNT(players.id)
temp_matches(P, M, tournament_id) ==
    LET joined(id) == {m \in of_tournament(M, tournament_id) :
                          id = m.winner_id \/ id = m.loser_id}
    IN  [id \in {p \in ids_of(P) : joined(p) # {}} |-> SumCopies(joined(id), M)]

\* num_matches: players LEFT JOIN temp_matches, COALESCE(SUM(..), 0), crossed
\* with the matches of the tournament, DISTINCT: one row per player when the
\* tournament has a match, none otherwise
num_matches(P, M, tournament_id) ==
    LET tm == temp_matches(P, M, tournament_id)
    IN  [id \in IF of_tournament(M, tournament_id) = {} THEN {} ELSE ids_of(P) |->
            IF id \in DOMAIN tm THEN tm[id] ELSE 0]

\* variant of games_won whose subquery has no WHERE clause: the wins of all
\* tournaments are counted
games_won_all(P, M, tournament_id) ==
    [id \in ids_of(P) |-> SumCopies({m \in BagToSet(M) : m.winner_id = id}, M)]

\* games_won: players LEFT JOIN (winner_id of the tournament's matches)
\* GROUP BY players.id, COUNT(subQuery.winner_id)
games_won(P, M, tournament_id) ==
    [id \in ids_of(P) |->
        SumCopies({m \in of_tournament(M, tournament_id) : m.winner_id = id}, M)]

\* the subquery of omw: (winner_id AS x, loser_id AS opponent) UNION
\* (loser_id AS x, winner_id AS opponent): a set, UNION drops duplicate rows
omw_subQuery(M, tournament_id) ==
    {<<m.winner_id, m.loser_id>> : m \in of_tournament(M, tournament_id)}
        \cup {<<m.loser_id, m.winner_id>> : m \in of_tournament(M, tournament_id)}

\* omw: games_won joined to the subquery WHERE id = opponent GROUP BY x,
\* SUM(wins); a function from the x that have a group to opponent_wins.
\* games_won has a row for the registered players only: an opponent that is
\* no row of players joins nothing
omw(P, M, tournament_id) ==
    LET gw == games_won(P, M, tournament_id)
        sq == {r \in omw_subQuery(M, tournament_id) : r[2] \in DOMAIN gw}
        opponents(x) == {r[2] : r \in {q \in sq : q[1] = x}}
    IN  [x \in {r[1] : r \in sq} |-> SumOf(opponents(x), gw)]

\* ---------------------------------------------------------------- standings
\* variant of tournament_restriction that is always the empty string
no_restriction(tournament_id, games_played) == TRUE

\* tournament_restriction: 'AND games_played > 0' when tournament_id != 0
tournament_restriction(tournament_id, games_played) ==
    IF tournament_id # 0 THEN games_played > 0 ELSE TRUE

\* ORDER BY wins DESC, opponent_wins DESC, games_played ASC: row a must come
\* before row b
OrderBy(a, b) ==
    \/ a.wins > b.wins
    \/ a.wins = b.wins /\ a.opponent_wins > b.opponent_wins
    \/ a.wins = b.wins /\ a.opponent_wins = b.opponent_wins
                       /\ a.games_played < b.games_played

\* the orders the final query may return the set of rows in: ORDER BY fixes
\* the order of two rows with different keys and nothing fixes the order of
\* two rows with the same keys
Sorted(rows) ==
    {s \in Perms(rows) : \A i \in 1 .. Len(s) - 1 : ~OrderBy(s[i + 1], s[i])}

\* the rows of the final query before ORDER BY: num_matches joined to
\* (games_won LEFT JOIN omw) on the id, with the tournament restriction
standings_rows(P, M, tournament_id) ==
    LET nm == num_matches(P, M, tournament_id)
        gw == games_won(P, M, tournament_id)
        ow == omw(P, M, tournament_id)
        row(p) == [id |-> p.id, name |-> p.name, wins |-> gw[p.id],
                   opponent_wins |-> IF p.id \in DOMAIN ow THEN ow[p.id] ELSE 0,
                   games_played |-> nm[p.id]]
        keep(p) == /\ p.id \in DOMAIN nm
                   /\ tournament_restriction(tournament_id, nm[p.id])
    IN  {row(P[i]) : i \in {j \in 1 .. Len(P) : keep(P[j])}}

\* the lists of tuples (id, name, wins, matches) playerStandings may return:
\* SELECT id, name, 0, 0 FROM players has no ORDER BY at all, the final query
\* orders by the three keys only
standings(P, M, tournament_id) ==
    IF count_matches(M, tournament_id) = 0
    THEN {[i \in 1 .. Len(s) |-> <<s[i].id, s[i].name, 0, 0>>] :
             s \in Perms({P[i] : i \in 1 .. Len(P)})}
    ELSE {[i \in 1 .. Len(s) |-> <<s[i].id, s[i].name, s[i].wins, s[i].games_played>>] :
             s \in Sorted(standings_rows(P, M, tournament_id))}

\* ---------------------------------------------------------------- pairings
\* variant of pairings_loop with iii += 1: a window that slides by one row
RECURSIVE pairings_loop_by_one(_, _, _)
pairings_loop_by_one(standings_, iii, pairings_) ==
    IF iii < Len(standings_)
    THEN LET tup1 == standings_[iii]
             tup2 == standings_[iii + 1]
         IN  pairings_loop_by_one(standings_, iii + 1,
                                  Append(pairings_, <<tup1[1], tup1[2], tup2[1], tup2[2]>>))
    ELSE pairings_

\* the while loop of swissPairings; standings[iii - 1] and standings[iii] of
\* the source, which counts from 0, are standings[iii] and standings[iii + 1]
RECURSIVE pairings_loop(_, _, _)
pairings_loop(standings_, iii, pairings_) ==
    IF iii < Len(standings_)
    THEN LET tup1 == standings_[iii]
             tup2 == standings_[iii + 1]
         IN  pairings_loop(standings_, iii + 2,
                           Append(pairings_, <<tup1[1], tup1[2], tup2[1], tup2[2]>>))
    ELSE pairings_

\* the lists swissPairings may return
swiss(P, M, tournament_id) ==
    {pairings_loop(s, 1, <<>>) : s \in standings(P, M, tournament_id)}

\* ---------------------------------------------------------------- count
\* variant of count_query without the branch for tournament_id == 0
count_query_no_default(P, M, tournament_id) ==
    Cardinality({m.winner_id : m \in of_tournament(M, tournament_id)}
                    \cup {m.loser_id : m \in of_tournament(M, tournament_id)})

\* the number countPlayers returns
count_query(P, M, tournament_id) ==
    IF tournament_id = 0
    THEN Len(P)
    ELSE Cardinality({m.winner_id : m \in of_tournament(M, tournament_id)}
                        \cup {m.loser_id : m \in of_tournament(M, tournament_id)})

\* ---------------------------------------------------------------- state
\* the results of the calls on the tables as they are
player_ids == ids_of(players)
match_rows == BagToSet(matches)
total_matches(tournament_id) == count_matches(matches, tournament_id)
output_(tournament_id) == standings(players, matches, tournament_id)
pairings(tournament_id) == swiss(players, matches, tournament_id)

\* ---------------------------------------------------------------- actions
Call(op, tournament_id, out) ==
    [op |-> op, tournament_id |-> tournament_id, raised |-> FALSE, output_ |-> out]

\* the call ended in an exception of the database driver
Raise(op, tournament_id) ==
    [op |-> op, tournament_id |-> tournament_id, raised |-> TRUE, output_ |-> <<>>]

\* The schema of the database, fixed when the database is created:
\* matches.winner_id and matches.loser_id are plain integers ("nofk"), or
\* they REFERENCES players(id) with the default action ("NO ACTION") or with
\* ON DELETE CASCADE ("CASCADE").
OnDelete == {"nofk", "NO ACTION", "CASCADE"}

\* the rows of M that reference a row of P
referencing(P, M) ==
    {m \in BagToSet(M) : m.winner_id \in ids_of(P) \/ m.loser_id \in ids_of(P)}

Init ==
    /\ players = <<>>
    /\ matches = EmptyBag
    /\ next_id = 1
    /\ views = {}
    /\ on_delete \in OnDelete
    /\ ret = Call("connect", 0, <<>>)

deleteMatches ==
    /\ matches' = EmptyBag
    /\ ret' = Call("deleteMatches", 0, <<>>)
    /\ UNCHANGED <<players, next_id, views, on_delete>>

\* the rows of matches after DELETE FROM players went through: the
\* statement deletes no row of matches; ON DELETE CASCADE deletes the rows
\* that reference a deleted player
deletePlayers_rows(P, M) ==
    IF on_delete = "CASCADE"
    THEN [m \in BagToSet(M) \ referencing(P, M) |-> M[m]]
    ELSE M

\* DELETE FROM players: without foreign keys the rows of players go and
\* matches stays as it is; with the default action of the foreign keys the
\* statement raises an IntegrityError while a match references a player, and
\* the call ends there, before pg.commit()
deletePlayers ==
    /\ IF on_delete = "NO ACTION" /\ referencing(players, matches) # {}
       THEN /\ ret' = Raise("deletePlayers", 0)
            /\ UNCHANGED <<players, matches>>
       ELSE /\ players' = <<>>
            /\ matches' = deletePlayers_rows(players, matches)
            /\ ret' = Call("deletePlayers", 0, <<>>)
    /\ UNCHANGED <<next_id, views, on_delete>>

\* INSERT INTO players(name) RETURNING id
registerPlayer(name) ==
    /\ players' = Append(players, [id |-> next_id, name |-> name])
    /\ next_id' = next_id + 1
    /\ ret' = Call("registerPlayer", 0, <<next_id>>)
    /\ UNCHANGED <<matches, views, on_delete>>

\* INSERT INTO matches: nothing in the function checks winner and loser;
\* foreign keys make the statement raise an IntegrityError when one of them
\* is not the id of a player
reportMatch(winner, loser, tournament_id) ==
    /\ IF on_delete = "nofk" \/ {winner, loser} \subseteq ids_of(players)
       THEN /\ matches' = matches (+) SetToBag({[winner_id |-> winner,
                                                 loser_id |-> loser,
                                                 tournament_id |-> tournament_id]})
            /\ ret' = Call("reportMatch", 0, <<>>)
       ELSE /\ matches' = matches
            /\ ret' = Raise("reportMatch", 0)
    /\ UNCHANGED <<players, next_id, views, on_delete>>

\* the four views playerStandings creates once the tournament has a match
standings_views == {"temp_matches", "num_matches", "games_won", "omw"}

\* CREATE VIEW raises when a relation of that name exists
create_view_raises(tournament_id) ==
    /\ total_matches(tournament_id) # 0
    /\ views \cap standings_views # {}

\* variant of close with a pg.commit() before it: the views stay
commit_close(created) == views \cup created

\* pg.close() with no pg.commit(): the views created in the call's
\* transaction are rolled back
close(created) == views

\* the views in the database after playerStandings(tournament_id)
views_after(tournament_id) ==
    IF total_matches(tournament_id) = 0 \/ create_view_raises(tournament_id)
    THEN views
    ELSE close(standings_views)

\* c.fetchall() of one of the lists the query may return
playerStandings(tournament_id) ==
    /\ IF create_view_raises(tournament_id)
       THEN ret' = Raise("playerStandings", tournament_id)
       ELSE \E out \in output_(tournament_id) :
               ret' = Call("playerStandings", tournament_id, out)
    /\ views' = views_after(tournament_id)
    /\ UNCHANGED <<players, matches, next_id, on_delete>>

\* standings = playerStandings(tournament_id), then the while loop
swissPairings(tournament_id) ==
    /\ IF create_view_raises(tournament_id)
       THEN ret' = Raise("swissPairings", tournament_id)
       ELSE \E out \in pairings(tournament_id) :
               ret' = Call("swissPairings", tournament_id, out)
    /\ views' = views_after(tournament_id)
    /\ UNCHANGED <<players, matches, next_id, on_delete>>

countPlayers(tournament_id) ==
    /\ ret' = Call("countPlayers", tournament_id, <<count_query(players, matches, tournament_id)>>)
    /\ UNCHANGED <<players, matches, next_id, views, on_delete>>

\* The calls a client can make while at most max_players players have been
\* registered and matches holds fewer than max_matches rows.  winner and
\* loser are any two integers: ids of players, ids of no player, twice the
\* same id.
calls(max_players, max_matches) ==
    \/ deleteMatches
    \/ deletePlayers
    \/ \E name \in Names : next_id <= max_players /\ registerPlayer(name)
    \/ \E winner \in 1 .. max_players, loser \in 1 .. max_players, t \in Tournaments :
          BagCardinality(matches) < max_matches /\ reportMatch(winner, loser, t)
    \/ \E t \in Tournaments : playerStandings(t)
    \/ \E t \in Tournaments : swissPairings(t)
    \/ \E t \in Tournaments : countPlayers(t)

Next == calls(MaxPlayers, MaxMatches)

Spec == Init /\ [][Next]_vars

\* the same calls with the bounds of the pairings
NextPairs == calls(PairPlayers, PairMatches)

SpecPairs == Init /\ [][NextPairs]_vars

\* ================================================================ properties
\* The quantities of the claims, counted on the matches table itself.
in_scope(t) == {m \in match_rows : m.tournament_id = t}
has_match(t) == in_scope(t) # {}

\* number of matches of tournament t that player p won
WinsOf(p, t) ==
    BagCardinality([m \in {r \in in_scope(t) : r.winner_id = p} |-> matches[m]])

\* number of matches of tournament t in which player p is the winner or the loser
GamesOf(p, t) ==
    BagCardinality([m \in {r \in in_scope(t) : p \in {r.winner_id, r.loser_id}}
                       |-> matches[m]])

\* the ids p faced in tournament t
OpponentsOf(p, t) ==
    {r.loser_id : r \in {m \in in_scope(t) : m.winner_id = p}}
        \cup {r.winner_id : r \in {m \in in_scope(t) : m.loser_id = p}}

\* number of matches of tournament t that p played against o
MeetingsOf(p, o, t) ==
    BagCardinality([m \in {r \in in_scope(t) :
                              \/ r.winner_id = p /\ r.loser_id = o
                              \/ r.winner_id = o /\ r.loser_id = p} |-> matches[m]])

\* OMW with every opponent counted once
OMWOf(p, t) == SumOf(OpponentsOf(p, t), [o \in OpponentsOf(p, t) |-> WinsOf(o, t)])

\* OMW with every opponent counted once per match played against them
OMWPerMatch(p, t) ==
    SumOf(OpponentsOf(p, t),
          [o \in OpponentsOf(p, t) |-> MeetingsOf(p, o, t) * WinsOf(o, t)])

\* OMW with every opponent that is a registered player counted once
OMWRegistered(p, t) ==
    SumOf(OpponentsOf(p, t) \cap player_ids,
          [o \in OpponentsOf(p, t) \cap player_ids |-> WinsOf(o, t)])

\* the registered players that appear in a match of tournament t
ParticipantsOf(t) ==
    {p \in player_ids : \E m \in in_scope(t) : p \in {m.winner_id, m.loser_id}}

\* the ids of a sequence of returned tuples, first column
IdsOf(rows) == {rows[i][1] : i \in 1 .. Len(rows)}

\* the last call returned the standings of tournament t
ReturnedStandings(t) ==
    /\ ret.op = "playerStandings"
    /\ ret.tournament_id = t
    /\ ~ret.raised

\* the last call returned the pairings of tournament t
ReturnedPairings(t) ==
    /\ ret.op = "swissPairings"
    /\ ret.tournament_id = t
    /\ ~ret.raised

\* ---------------------------------------------------------------- C1
NotWorse(p, q, t) ==
    \/ WinsOf(p, t) > WinsOf(q, t)
    \/ /\ WinsOf(p, t) = WinsOf(q, t)
       /\ \/ OMWOf(p, t) > OMWOf(q, t)
          \/ /\ OMWOf(p, t) = OMWOf(q, t)
             /\ GamesOf(p, t) <= GamesOf(q, t)

\* C1 as stated: when the scope has a match, the rows playerStandings
\* returned are sorted by wins descending, then OMW (the sum of the in-scope
\* wins of the opponents the player faced) descending, then games played
\* ascending: no row has a worse key than the row after it.
C1_Sorted ==
    \A t \in Tournaments :
        (ReturnedStandings(t) /\ has_match(t)) =>
            \A i \in 1 .. Len(ret.output_) - 1 :
                NotWorse(ret.output_[i][1], ret.output_[i + 1][1], t)

\* ---------------------------------------------------------------- C2
\* C2: when the scope has a match, every row (id, name, wins, games_played)
\* that playerStandings can return has wins = number of the scope's matches
\* the player won and games_played = number of the scope's matches the
\* player is in.
C2_WinsAndGames ==
    \A t \in Tournaments :
        has_match(t) =>
            \A rows \in output_(t) :
                \A i \in 1 .. Len(rows) :
                    /\ rows[i][3] = WinsOf(rows[i][1], t)
                    /\ rows[i][4] = GamesOf(rows[i][1], t)

\* the standings were returned with a player who met the same opponent twice
C2_Witness ==
    \E t \in Tournaments :
        /\ ReturnedStandings(t)
        /\ \E i \in 1 .. Len(ret.output_) :
              /\ ret.output_[i][3] >= 1
              /\ ret.output_[i][4] >= 2
              /\ \E o \in player_ids \ {ret.output_[i][1]} :
                    MeetingsOf(ret.output_[i][1], o, t) >= 2

\* ---------------------------------------------------------------- C3
\* C3 as stated, for the players all of whose opponents are other
\* registered players: the second sort key adds an opponent's wins once per
\* match played against that opponent.
C3_PerMatchOccurrence ==
    \A t \in Tournaments :
        \A r \in standings_rows(players, matches, t) :
            OpponentsOf(r.id, t) \subseteq player_ids \ {r.id}
                => r.opponent_wins = OMWPerMatch(r.id, t)

\* ---------------------------------------------------------------- C4
\* C4: for a scope without matches, and so for every scope right after
\* deleteMatches, playerStandings returns one row (id, name, 0, 0) for every
\* registered player and no other row.
AllPlayersZero(rows) ==
    /\ Len(rows) = Len(players)
    /\ {rows[i] : i \in 1 .. Len(rows)}
         = {<<players[i].id, players[i].name, 0, 0>> : i \in 1 .. Len(players)}

C4_NoMatchesAllPlayers ==
    /\ \A t \in Tournaments :
          ~has_match(t) => \A rows \in output_(t) : AllPlayersZero(rows)
    /\ \A t \in Tournaments :
          (ReturnedStandings(t) /\ ~has_match(t)) => AllPlayersZero(ret.output_)
    /\ ret.op = "deleteMatches" =>
          \A t \in Tournaments : \A rows \in output_(t) : AllPlayersZero(rows)

\* the standings of a scope without matches were returned while players are
\* registered and the other scope has matches
C4_Witness ==
    \E t \in Tournaments :
        /\ ReturnedStandings(t)
        /\ ~has_match(t)
        /\ \E u \in Tournaments : has_match(u)
        /\ Len(players) >= 2
        /\ Len(ret.output_) = Len(players)

\* ---------------------------------------------------------------- C5
\* C5 as stated: for every scope with a match, playerStandings returns
\* exactly the registered players that appear in a match of the scope.
C5_OnlyParticipants ==
    \A t \in Tournaments :
        has_match(t) => \A rows \in output_(t) : IdsOf(rows) = ParticipantsOf(t)

\* C5 amended: for every scope other than 0 with a match, playerStandings
\* returns exactly the registered players that appear in a match of the
\* scope, each once; for scope 0 it returns every registered player.
C5_OnlyParticipantsNonZero ==
    \A t \in Tournaments :
        has_match(t) =>
            \A rows \in output_(t) :
                /\ Len(rows) = Cardinality(IdsOf(rows))
                /\ IdsOf(rows) = IF t # 0 THEN ParticipantsOf(t) ELSE player_ids

\* the standings of a scope other than 0 were returned without a registered
\* player who is in none of its matches
C5_Witness ==
    \E t \in Tournaments \ {0} :
        /\ ReturnedStandings(t)
        /\ has_match(t)
        /\ ret.output_ # <<>>
        /\ player_ids \ IdsOf(ret.output_) # {}

\* ---------------------------------------------------------------- C6
PairIds(pr) == {pr[k][1] : k \in 1 .. Len(pr)} \cup {pr[k][3] : k \in 1 .. Len(pr)}

\* pr pairs the rows of the standings st
PairsOf(st, pr) ==
    /\ Len(pr) = Len(st) \div 2
    /\ \A k \in 1 .. Len(pr) :
          pr[k] = <<st[2 * k - 1][1], st[2 * k - 1][2], st[2 * k][1], st[2 * k][2]>>
    /\ Cardinality(PairIds(pr)) = 2 * Len(pr)
    /\ Len(st) % 2 = 1 => st[Len(st)][1] \notin PairIds(pr)

\* C6: swissPairings returns floor(len(standings) / 2) pairs, pair k holds
\* the ids and names at positions 2k and 2k+1 (counted from 0) of the
\* standings, no id is in two pairs or twice in a pair, and the last player
\* of standings of odd length is in no pair.
C6_Pairings ==
    \A t \in Tournaments :
        /\ \A st \in output_(t) : PairsOf(st, pairings_loop(st, 1, <<>>))
        /\ ReturnedPairings(t) => \E st \in output_(t) : PairsOf(st, ret.output_)

\* the pairings of standings of four players with a match were returned:
\* two pairs
C6_Witness ==
    \E t \in Tournaments :
        /\ ReturnedPairings(t)
        /\ has_match(t)
        /\ \A st \in output_(t) : Len(st) = 4
        /\ Len(ret.output_) = 2

\* ---------------------------------------------------------------- C7
DistinctInMatches(t) ==
    Cardinality({m.winner_id : m \in in_scope(t)} \cup {m.loser_id : m \in in_scope(t)})

\* C7 as stated: countPlayers returns the number of registered players when
\* the scope has no match, and the number of distinct players in the scope's
\* matches when it has one.
C7_CountByMatches ==
    \A t \in Tournaments :
        count_query(players, matches, t) = IF has_match(t) THEN DistinctInMatches(t) ELSE Len(players)

\* C7 amended: countPlayers(0) returns the number of registered players,
\* with or without matches; for a scope other than 0 it returns the number
\* of distinct ids in the scope's matches, 0 when the scope has none.
C7_CountByScope ==
    \A t \in Tournaments :
        count_query(players, matches, t) = IF t = 0 THEN Len(players) ELSE DistinctInMatches(t)

\* the count of a scope other than 0 without matches was returned, 0, while
\* players are registered
C7_Witness ==
    \E t \in Tournaments \ {0} :
        /\ ret.op = "countPlayers"
        /\ ret.tournament_id = t
        /\ ~has_match(t)
        /\ players # <<>>
        /\ ret.output_ = <<0>>

\* ---------------------------------------------------------------- C8
\* the two calls are calls of playerStandings for the same scope, the first
\* of which returned
Consecutive(r1, r2) ==
    /\ r1.op = "playerStandings"
    /\ r2.op = "playerStandings"
    /\ r1.tournament_id = r2.tournament_id
    /\ ~r1.raised

\* the keys of the players of the returned rows, position by position
KeysOf(rows, t) ==
    [i \in 1 .. Len(rows) |->
        <<WinsOf(rows[i][1], t), OMWRegistered(rows[i][1], t), GamesOf(rows[i][1], t)>>]

C9_DeletePlayersCascades ==
    ret.op = "deletePlayers" => players = <<>> /\ matches = EmptyBag

\* ---------------------------------------------------------------- C10
\* the three queries can give the same on the tables P, M and on the tables
\* Q, N: the same lists of standings, the same lists of pairs, the same count
SameResults(P, M, Q, N, t) ==
    /\ standings(Q, N, t) = standings(P, M, t)
    /\ swiss(Q, N, t) = swiss(P, M, t)
    /\ count_query(Q, N, t) = count_query(P, M, t)

\* C10: reportMatch adds one row to matches and changes nothing else of the
\* store, and for every tournament other than the one of the new row the
\* standings, the pairings and the count are the same before and after.
C10_ScopeIsolation ==
    [][ret'.op = "reportMatch" =>
          /\ players' = players
          /\ ret'.raised => matches' = matches
          /\ ~ret'.raised => \E m \in BagToSet(matches') :
                /\ matches' = matches (+) SetToBag({m})
                /\ \A t \in Tournaments \ {m.tournament_id} :
                      SameResults(players, matches, players', matches', t)]_vars

\* a match was just reported while the other tournament has matches and
\* standings of more than one row
C10_Witness ==
    /\ ret.op = "reportMatch"
    /\ ~ret.raised
    /\ \A t \in Tournaments : has_match(t)
    /\ \E t \in Tournaments \ {0} : \E st \in output_(t) : Len(st) >= 2

====
